---- MODULE Spec2Model ----
(***************************************************************************)
(* Model of src/helpers.py (possession, kick detection, the scans of the   *)
(* playmode column for fouls, goals and events, the goalkeeper report and  *)
(* the pass classification scan analyse_passes) and of the part of         *)
(* src/geom_2d.py it uses.                                                 *)
(*                                                                         *)
(* Conventions.                                                            *)
(*  - Coordinates are integers in tenths of a field unit, so the influence *)
(*    radius 0.7 is 7 and math.sqrt(dx^2 + dy^2) <= r is decided on the    *)
(*    squares (both sides are non-negative, sqrt is monotone).             *)
(*  - Python lists and table rows keep their 0-based indices: they are     *)
(*    functions over 0..n-1.                                               *)
(*  - The table df is immutable.  Its playmode column is fixed by Init;    *)
(*    the position and kick-counter cells of a row are fixed when the scan *)
(*    reaches the row (they are read at that row and the next one only).   *)
(*  - PairSpec calls analyse_passes on a whole table and then on a second  *)
(*    table derived from it; the variables then hold the second table.     *)
(***************************************************************************)
EXTENDS Integers, Sequences, FiniteSets, TLC

VARIABLES
    playmode,           \* df['playmode']: 0..NCycles-1 -> play-mode label
    current_cycle,      \* analyse_passes: index of the row the loop is at
    row,                \* df.loc[current_cycle]: ball and player positions
    kick_count,         \* df[player_{team}{n}_counting_kick][current_cycle]
    kick_prev,          \* df[player_{team}{n}_counting_kick][current_cycle-1]
    pc,                 \* position of the running function
    pass_r, pass_l,     \* analyse_passes: pass in flight flags
    player_who_kicked,  \* analyse_passes: the one variable both sides write
    correct_passes_l, wrong_passes_l, intercepted_passes_l,
    correct_passes_r, wrong_passes_r, intercepted_passes_r,
    kicker_r, kicker_l, \* player kick() returned when the side's pass opened
    lookahead,          \* how the lookahead of the last iteration ended, if it ran
    result              \* value returned (or exception raised) by the call

vars == << playmode, current_cycle, row, kick_count, kick_prev, pc,
           pass_r, pass_l, player_who_kicked,
           correct_passes_l, wrong_passes_l, intercepted_passes_l,
           correct_passes_r, wrong_passes_r, intercepted_passes_r,
           kicker_r, kicker_l, lookahead, result >>

-----------------------------------------------------------------------------
(* Bounds of the explored tables *)

\* number of rows (cycles) of the table
NCycles == 5

\* highest value a kick counter reaches in the explored tables
MaxKick == 1

-----------------------------------------------------------------------------
(* geom_2d.py *)

\* Point(x, y)
Point(x, y) == [x |-> x, y |-> y]

\* Point(): both coordinates default to 0.0
PointDefault == Point(0, 0)

\* Circle(radius, center)
Circle(radius, center) == [radius |-> radius, center |-> center]

\* distance_sqrd(p1, p2) = (p1.x - p2.x)**2 + (p1.y - p2.y)**2; distance() is its root
distance_sqrd(p1, p2) == (p1.x - p2.x) * (p1.x - p2.x) + (p1.y - p2.y) * (p1.y - p2.y)

\* Circle.is_inside: distance(center, point) <= radius, decided on the squares
is_inside(circle, point) ==
    distance_sqrd(circle.center, point) <= circle.radius * circle.radius

-----------------------------------------------------------------------------
(* define_player_possession *)

\* player_influence_radius = 0.7, in tenths
player_influence_radius == 7

None == "None"

\* a returned tuple (side, number) and a returned bare value
Tuple2(side, n) == [shape |-> "tuple", side |-> side, num |-> n]
Bare(side) == [shape |-> "bare", side |-> side, num |-> -1]

\* the value returned for the player at list index i: the code returns i+2
PossessorNumber(i) == i + 2

\* for i in range(1, 11): ... with player_right_position carried over from the
\* previous index (it is assigned only after the left player's tests)
RECURSIVE ScanPlayers(_, _, _, _)
ScanPlayers(i, player_right_position, r, player_who_possesses) ==
    IF i > 10
    THEN IF player_who_possesses THEN Tuple2(None, -1) ELSE Bare(None)
    ELSE LET ball_zone == Circle(player_influence_radius, r.ball)
             player_left_position == r.left[i]
         IN  IF is_inside(ball_zone, player_left_position)
                /\ is_inside(ball_zone, player_right_position)
             THEN Tuple2(None, -1)
             ELSE IF is_inside(ball_zone, player_left_position)
             THEN IF player_who_possesses
                  THEN Tuple2("left", PossessorNumber(i))
                  ELSE Bare("left")
             ELSE IF is_inside(ball_zone, r.right[i])
             THEN IF player_who_possesses
                  THEN Tuple2("right", PossessorNumber(i))
                  ELSE Bare("right")
             ELSE ScanPlayers(i + 1, r.right[i], r, player_who_possesses)

\* the scan with player_right_position read at index 1 before the first test
define_player_possession_fresh(r, player_who_possesses) ==
    ScanPlayers(1, r.right[1], r, player_who_possesses)

\* define_player_possession(cycle, players, df, player_who_possesses) on the row r = df.loc[cycle]
define_player_possession(r, player_who_possesses) ==
    ScanPlayers(1, PointDefault, r, player_who_possesses)

-----------------------------------------------------------------------------
(* kick *)

Min(S) == CHOOSE m \in S : \A n \in S : m <= n

\* kick() returning the last player_num of the scan whose counter grew
kick_last(cycle, team, cur, prev) ==
    LET kicked == { player_num \in 1..11 :
                      cycle # 0 /\ cur[team][player_num] > prev[team][player_num] }
    IN  IF kicked = {}
        THEN [kicked |-> FALSE, num |-> -1]
        ELSE [kicked |-> TRUE, num |-> CHOOSE m \in kicked : \A n \in kicked : n <= m]

\* kick() comparing each counter with 0 rather than with the previous row
kick_level(cycle, team, cur, prev) ==
    LET kicked == { player_num \in 1..11 :
                      cycle # 0 /\ cur[team][player_num] > 0 }
    IN  IF kicked = {}
        THEN [kicked |-> FALSE, num |-> -1]
        ELSE [kicked |-> TRUE, num |-> Min(kicked)]

\* kick(cycle, team, df, True): the first player_num in 1..11 whose counter at
\* cycle is greater than at cycle-1; never at cycle 0.  cur and prev are the
\* counters of the rows cycle and cycle-1.
kick(cycle, team, cur, prev) ==
    LET kicked == { player_num \in 1..11 :
                      cycle # 0 /\ cur[team][player_num] > prev[team][player_num] }
    IN  IF kicked = {}
        THEN [kicked |-> FALSE, num |-> -1]
        ELSE [kicked |-> TRUE, num |-> Min(kicked)]

-----------------------------------------------------------------------------
(* analyse_passes *)

\* for l in range(5)
LookaheadWindow == 5

\* for l in range(5): if df['playmode'][current_cycle + l] in labels:
\*     intercepted -= 1; break
\* dec is the number of decrements made, exc the exception the loop ends with:
\* the KeyError of df['playmode'][n] for a row n past the end of the table.
RECURSIVE LookaheadFrom_nobreak(_, _, _)
LookaheadFrom_nobreak(l, cycle, labels) ==
    IF l >= LookaheadWindow THEN [dec |-> 0, exc |-> "none"]
    ELSE IF cycle + l \notin DOMAIN playmode THEN [dec |-> 0, exc |-> "KeyError"]
    ELSE LET rest == LookaheadFrom_nobreak(l + 1, cycle, labels)
         IN  IF playmode[cycle + l] \in labels
             THEN [dec |-> rest.dec + 1, exc |-> rest.exc]
             ELSE rest

RECURSIVE LookaheadFrom(_, _, _)
LookaheadFrom(l, cycle, labels) ==
    IF l >= LookaheadWindow THEN [dec |-> 0, exc |-> "none"]
    ELSE IF cycle + l \notin DOMAIN playmode THEN [dec |-> 0, exc |-> "KeyError"]
    ELSE IF playmode[cycle + l] \in labels THEN [dec |-> 1, exc |-> "none"]
    ELSE LookaheadFrom(l + 1, cycle, labels)

\* how a lookahead ended: it decremented ("retracted"), its except clause
\* ran ("caught"), or its five rows held no label ("kept")
Outcome(la) ==
    IF la.dec > 0 THEN "retracted"
    ELSE IF la.exc # "none" THEN "caught"
    ELSE "kept"

\* the loop without its try: the KeyError leaves analyse_passes
Lookahead_uncaught(cycle, labels) ==
    LET la == LookaheadFrom(0, cycle, labels)
    IN  [dec |-> la.dec, outcome |-> Outcome(la), exc |-> la.exc]

\* try: <the loop> except: pass
\* no exception leaves the statement
Lookahead(cycle, labels) ==
    LET la == LookaheadFrom(0, cycle, labels)
    IN  [dec |-> la.dec, outcome |-> Outcome(la), exc |-> "none"]

\* the local state of analyse_passes as a record, with the marks continued (the
\* iteration ended by `continue`), lookahead and exc (an exception left the body)
Locals ==
    [ pass_r |-> pass_r, pass_l |-> pass_l, player_who_kicked |-> player_who_kicked,
      correct_passes_l |-> correct_passes_l, wrong_passes_l |-> wrong_passes_l,
      intercepted_passes_l |-> intercepted_passes_l,
      correct_passes_r |-> correct_passes_r, wrong_passes_r |-> wrong_passes_r,
      intercepted_passes_r |-> intercepted_passes_r,
      kicker_r |-> kicker_r, kicker_l |-> kicker_l,
      continued |-> FALSE, lookahead |-> "none", exc |-> "none" ]

\* lines 435-466: the right side's half of the loop body
RightHalf(s, cycle, r, cur, prev) ==
    IF ~s.pass_r
    THEN LET k == kick(cycle, "r", cur, prev)
         IN  [s EXCEPT !.pass_r = k.kicked, !.player_who_kicked = k.num,
                       !.kicker_r = IF k.kicked THEN k.num ELSE @]
    ELSE LET s1 == [s EXCEPT !.pass_l = FALSE]
         IN  IF playmode[cycle] = "kick_in_l"
             THEN [s1 EXCEPT !.pass_r = FALSE, !.wrong_passes_r = @ + 1,
                             !.continued = TRUE]
             ELSE LET p  == define_player_possession(r, TRUE)
                      s2 == IF p.side = "right"
                            THEN [s1 EXCEPT !.pass_r = FALSE,
                                            !.correct_passes_r =
                                                IF s1.player_who_kicked # p.num
                                                THEN @ + 1 ELSE @]
                            ELSE s1
                  IN  IF p.side = "left"
                      THEN LET la == Lookahead(cycle, {"kick_off_l", "foul_charge_l"})
                           IN  [s2 EXCEPT !.pass_r = FALSE,
                                          !.intercepted_passes_l = (@ + 1) - la.dec,
                                          !.lookahead = la.outcome,
                                          !.exc = la.exc]
                      ELSE s2

\* lines 468-500: the left side's half of the loop body
LeftHalf(s, cycle, r, cur, prev) ==
    IF ~s.pass_l
    THEN LET k == kick(cycle, "l", cur, prev)
         IN  [s EXCEPT !.pass_l = k.kicked, !.player_who_kicked = k.num,
                       !.kicker_l = IF k.kicked THEN k.num ELSE @]
    ELSE LET s1 == [s EXCEPT !.pass_r = FALSE]
         IN  IF playmode[cycle] = "kick_in_r"
             THEN [s1 EXCEPT !.pass_l = FALSE, !.wrong_passes_l = @ + 1,
                             !.continued = TRUE]
             ELSE LET p  == define_player_possession(r, TRUE)
                      s2 == IF p.side = "left"
                            THEN [s1 EXCEPT !.pass_l = FALSE,
                                            !.correct_passes_l =
                                                IF s1.player_who_kicked # p.num
                                                THEN @ + 1 ELSE @]
                            ELSE s1
                  IN  IF p.side = "right"
                      THEN LET la == Lookahead(cycle, {"kick_off_r", "foul_charge_r"})
                           IN  [s2 EXCEPT !.pass_l = FALSE,
                                          !.intercepted_passes_r = (@ + 1) - la.dec,
                                          !.lookahead = la.outcome,
                                          !.exc = la.exc]
                      ELSE s2

\* an iteration whose right half runs once more on the same row
Iteration_rescan(s, cycle, r, cur, prev) ==
    LET s1 == RightHalf(s, cycle, r, cur, prev)
        s2 == IF s1.continued \/ s1.exc # "none"
              THEN s1
              ELSE LeftHalf(s1, cycle, r, cur, prev)
    IN  IF s2.continued \/ s2.exc # "none"
        THEN s2
        ELSE RightHalf(s2, cycle, r, cur, prev)

\* one iteration of `for current_cycle, row in df.iterrows()`
Iteration(s, cycle, r, cur, prev) ==
    LET s1 == RightHalf(s, cycle, r, cur, prev)
    IN  IF s1.continued \/ s1.exc # "none"
        THEN s1
        ELSE LeftHalf(s1, cycle, r, cur, prev)

-----------------------------------------------------------------------------
(* The explored tables *)

Modes == { "play_on", "kick_in_l", "kick_in_r", "kick_off_l", "kick_off_r",
           "foul_charge_l", "foul_charge_r" }

\* playmode columns: play_on throughout but for one run, of one or two rows,
\* of another mode
PlaymodeColumns ==
    { [i \in 0..(NCycles - 1) |->
         IF e[1] <= i /\ i < e[1] + e[2] THEN e[3] ELSE "play_on"] :
        e \in (0..(NCycles - 1)) \X {1, 2} \X Modes }

Far == Point(300, 300)
BallSpot == Point(100, 0)
\* at distance exactly 0.7 of BallSpot
NearSpot == Point(100, 7)

\* a row whose players are all far from the ball except those of nearL / nearR
\* (list indices), who stand at spot
RowWith(ball, nearL, nearR, spot) ==
    [ ball  |-> ball,
      left  |-> [i \in 0..10 |-> IF i \in nearL THEN spot ELSE Far],
      right |-> [i \in 0..10 |-> IF i \in nearR THEN spot ELSE Far] ]

\* rows of the pass scan: at most one of the players of list index 1, 2 is near
PassRows ==
    { RowWith(BallSpot, {}, {}, NearSpot) }
    \cup { RowWith(BallSpot, {i}, {}, NearSpot) : i \in {1, 2} }
    \cup { RowWith(BallSpot, {}, {i}, NearSpot) : i \in {1, 2} }

\* the players whose kick counter moves in the explored tables
KickShirts == {3}

ZeroKicks == [team \in {"l", "r"} |-> [n \in 1..11 |-> 0]]

\* the kick counters a next row may hold: non-decreasing, each side's counters
\* raised by one for at most one player, none above MaxKick
NextKicks(cur) ==
    { [team \in {"l", "r"} |->
         [n \in 1..11 |-> IF n = k[team] THEN cur[team][n] + 1 ELSE cur[team][n]]] :
        k \in { kk \in [{"l", "r"} -> KickShirts \cup {0}] :
                  \A team \in {"l", "r"} :
                      kk[team] # 0 => cur[team][kk[team]] < MaxKick } }

NoResult == [shape |-> "none"]

\* past the last row there is no row to read
NoRow == [ball |-> "none"]

Init ==
    /\ playmode \in PlaymodeColumns
    /\ current_cycle = 0
    /\ row \in PassRows
    /\ kick_count = ZeroKicks
    /\ kick_prev = ZeroKicks
    /\ pc = "loop"
    /\ pass_r = FALSE
    /\ pass_l = FALSE
    /\ player_who_kicked = -1
    /\ correct_passes_l = 0 /\ wrong_passes_l = 0 /\ intercepted_passes_l = 0
    /\ correct_passes_r = 0 /\ wrong_passes_r = 0 /\ intercepted_passes_r = 0
    /\ kicker_r = -1 /\ kicker_l = -1
    /\ lookahead = "none"
    /\ result = NoResult

\* the loop body at row current_cycle, then the move to the next row; an
\* exception that leaves the body ends the call
LoopBody ==
    /\ pc = "loop"
    /\ current_cycle < NCycles
    /\ LET s == Iteration(Locals, current_cycle, row, kick_count, kick_prev)
       IN  /\ pass_r' = s.pass_r
           /\ pass_l' = s.pass_l
           /\ player_who_kicked' = s.player_who_kicked
           /\ correct_passes_l' = s.correct_passes_l
           /\ wrong_passes_l' = s.wrong_passes_l
           /\ intercepted_passes_l' = s.intercepted_passes_l
           /\ correct_passes_r' = s.correct_passes_r
           /\ wrong_passes_r' = s.wrong_passes_r
           /\ intercepted_passes_r' = s.intercepted_passes_r
           /\ kicker_r' = s.kicker_r
           /\ kicker_l' = s.kicker_l
           /\ lookahead' = s.lookahead
           /\ IF s.exc # "none"
              THEN /\ pc' = "raised"
                   /\ result' = [shape |-> s.exc]
                   /\ UNCHANGED << current_cycle, row, kick_prev, kick_count >>
              ELSE /\ current_cycle' = current_cycle + 1
                   /\ result' = result
                   /\ IF current_cycle + 1 < NCycles
                      THEN /\ pc' = "loop"
                           /\ row' \in PassRows
                           /\ kick_prev' = kick_count
                           /\ kick_count' \in NextKicks(kick_count)
                      ELSE /\ pc' = "return"
                           /\ row' = NoRow
                           /\ kick_prev' = ZeroKicks
                           /\ kick_count' = ZeroKicks
    /\ UNCHANGED playmode

team_name_l == "TeamL"
team_name_r == "TeamR"
TeamArgs == { team_name_l, team_name_r, "Other" }

\* lines 502-507
Return ==
    /\ pc = "return"
    /\ \E team \in TeamArgs :
         result' =
            IF team = team_name_l
            THEN [shape |-> "tuple", team |-> team, correct |-> correct_passes_l,
                  wrong |-> wrong_passes_l, intercepted |-> intercepted_passes_l]
            ELSE IF team = team_name_r
            THEN [shape |-> "tuple", team |-> team, correct |-> correct_passes_r,
                  wrong |-> wrong_passes_r, intercepted |-> intercepted_passes_r]
            ELSE [shape |-> "ValueError", team |-> team]
    /\ pc' = "done"
    /\ UNCHANGED << playmode, current_cycle, row, kick_count, kick_prev,
                    pass_r, pass_l, player_who_kicked,
                    correct_passes_l, wrong_passes_l, intercepted_passes_l,
                    correct_passes_r, wrong_passes_r, intercepted_passes_r,
                    kicker_r, kicker_l, lookahead >>

Next == LoopBody \/ Return

\* analyse_passes(df, players, team) over the explored tables
Spec == Init /\ [][Next]_vars

-----------------------------------------------------------------------------
(* define_player_possession on its own *)

OriginSpot == Point(0, 0)
\* at distance exactly 0.7 of OriginSpot
NearOrigin == Point(0, 7)
\* at distance sqrt(0.5) > 0.7 of OriginSpot
OffOrigin == Point(5, 5)

DppSpots == { Far, NearSpot, NearOrigin, OffOrigin }

\* rows of one call: the ball at one of two spots, the players of list index
\* 1 and 2 of each side at any spot, the left goalkeeper and the players of
\* list index 10 far or near, everyone else far
DppRows ==
    { [ ball  |-> b,
        left  |-> [i \in 0..10 |-> IF i \in {1, 2} THEN pl[i]
                                   ELSE IF i = 0 THEN g
                                   ELSE IF i = 10 THEN t[1]
                                   ELSE Far],
        right |-> [i \in 0..10 |-> IF i \in {1, 2} THEN pr[i]
                                   ELSE IF i = 10 THEN t[2]
                                   ELSE Far] ] :
        b \in {OriginSpot, BallSpot}, pl \in [{1, 2} -> DppSpots],
        pr \in [{1, 2} -> DppSpots], g \in {Far, NearSpot, NearOrigin},
        t \in {Far, NearSpot} \X {Far, NearSpot} }

DppInit ==
    /\ row \in DppRows
    /\ pc = "call"
    /\ result = NoResult
    /\ playmode = [i \in 0..(NCycles - 1) |-> "play_on"]
    /\ current_cycle = 0
    /\ kick_count = ZeroKicks
    /\ kick_prev = ZeroKicks
    /\ pass_r = FALSE
    /\ pass_l = FALSE
    /\ player_who_kicked = -1
    /\ correct_passes_l = 0 /\ wrong_passes_l = 0 /\ intercepted_passes_l = 0
    /\ correct_passes_r = 0 /\ wrong_passes_r = 0 /\ intercepted_passes_r = 0
    /\ kicker_r = -1 /\ kicker_l = -1
    /\ lookahead = "none"

\* a call define_player_possession(cycle, players, df, player_who_possesses)
DppCall ==
    /\ pc = "call"
    /\ \E player_who_possesses \in BOOLEAN :
         result' = [shape |-> "returned", flag |-> player_who_possesses,
                    ret |-> define_player_possession(row, player_who_possesses)]
    /\ pc' = "returned"
    /\ UNCHANGED << playmode, current_cycle, row, kick_count, kick_prev,
                    pass_r, pass_l, player_who_kicked,
                    correct_passes_l, wrong_passes_l, intercepted_passes_l,
                    correct_passes_r, wrong_passes_r, intercepted_passes_r,
                    kicker_r, kicker_l, lookahead >>

DppNext == DppCall

DppSpec == DppInit /\ [][DppNext]_vars

-----------------------------------------------------------------------------
(* The functions called once on a table.  Each has a specification of two   *)
(* steps: the arguments are chosen, the call returns.  The locals of        *)
(* analyse_passes are not used and stay at their initial values.            *)

PassLocals == << pass_r, pass_l, player_who_kicked,
                 correct_passes_l, wrong_passes_l, intercepted_passes_l,
                 correct_passes_r, wrong_passes_r, intercepted_passes_r,
                 kicker_r, kicker_l, lookahead >>

PassLocalsInit ==
    /\ pass_r = FALSE
    /\ pass_l = FALSE
    /\ player_who_kicked = -1
    /\ correct_passes_l = 0 /\ wrong_passes_l = 0 /\ intercepted_passes_l = 0
    /\ correct_passes_r = 0 /\ wrong_passes_r = 0 /\ intercepted_passes_r = 0
    /\ kicker_r = -1 /\ kicker_l = -1
    /\ lookahead = "none"

-----------------------------------------------------------------------------
(* possession_at *)

\* closest_distance = 1000, in tenths
closest_distance == 10000

\* for i in range(11): the two tests of index i, left first, each with `<`
\* against the closest distance so far (kept as its square)
RECURSIVE ClosestScan(_, _, _, _)
ClosestScan(i, closest_sqrd, possession_side, r) ==
    IF i > 10
    THEN possession_side
    ELSE LET player_l_sqrd == distance_sqrd(r.left[i], r.ball)
             player_r_sqrd == distance_sqrd(r.right[i], r.ball)
             left_closer   == player_l_sqrd < closest_sqrd
             closest_l     == IF left_closer THEN player_l_sqrd ELSE closest_sqrd
             side_l        == IF left_closer THEN "left" ELSE possession_side
             right_closer  == player_r_sqrd < closest_l
         IN  ClosestScan(i + 1,
                         IF right_closer THEN player_r_sqrd ELSE closest_l,
                         IF right_closer THEN "right" ELSE side_l,
                         r)

\* possession_at(cycle, game, players) on the row r = game.loc[cycle]
possession_at(r) ==
    ClosestScan(0, closest_distance * closest_distance, "", r)

\* at distance 2.0 of BallSpot
MidSpot == Point(100, 20)
\* at distance exactly 1000 of BallSpot
RemoteSpot == Point(10100, 0)

\* where a player stands: near the ball, at mid distance, or with the rest
SpotOf(where, rest) ==
    IF where = "near" THEN NearSpot ELSE IF where = "mid" THEN MidSpot ELSE rest

\* rows of one call: the ball at BallSpot; the players of list index 0, 1 and
\* 10 of each side near, at mid distance or where everyone else stands, which
\* is far or remote
PossessionRows ==
    { [ ball  |-> BallSpot,
        left  |-> [i \in 0..10 |-> IF i \in {0, 1, 10}
                                   THEN SpotOf(pl[i], rest) ELSE rest],
        right |-> [i \in 0..10 |-> IF i \in {0, 1, 10}
                                   THEN SpotOf(pr[i], rest) ELSE rest] ] :
        rest \in {Far, RemoteSpot},
        pl \in [{0, 1, 10} -> {"rest", "near", "mid"}],
        pr \in [{0, 1, 10} -> {"rest", "near", "mid"}] }

PossessionInit ==
    /\ row \in PossessionRows
    /\ pc = "call"
    /\ result = NoResult
    /\ playmode = [i \in 0..(NCycles - 1) |-> "play_on"]
    /\ current_cycle = 0
    /\ kick_count = ZeroKicks
    /\ kick_prev = ZeroKicks
    /\ PassLocalsInit

\* a call possession_at(cycle, game, players)
PossessionCall ==
    /\ pc = "call"
    /\ result' = [shape |-> "returned", ret |-> possession_at(row)]
    /\ pc' = "returned"
    /\ UNCHANGED << playmode, current_cycle, row, kick_count, kick_prev, PassLocals >>

PossessionNext == PossessionCall

PossessionSpec == PossessionInit /\ [][PossessionNext]_vars

-----------------------------------------------------------------------------
(* kick on its own *)

\* the players whose kick counter varies in the tables of the kick calls
KickCallShirts == {1, 11}

\* counters that are 0 but for those of KickCallShirts, given by c
KickRow(c) ==
    [team \in {"l", "r"} |->
        [n \in 1..11 |-> IF n \in KickCallShirts THEN c[team][n] ELSE 0]]

\* the counters of two consecutive rows: every counter of KickCallShirts
\* anywhere in 0..MaxKick and not below its value in the row before
KickPairs ==
    { [cur |-> KickRow(c), prev |-> KickRow(p)] :
        <<c, p>> \in { cp \in [{"l", "r"} -> [KickCallShirts -> 0..MaxKick]]
                            \X [{"l", "r"} -> [KickCallShirts -> 0..MaxKick]] :
                        \A team \in {"l", "r"} : \A n \in KickCallShirts :
                            cp[2][team][n] <= cp[1][team][n] } }

\* row 0 has no row before it: kick_prev is then a row of zeros that kick()
\* does not read
KickInit ==
    /\ current_cycle \in 0..(NCycles - 1)
    /\ \E pair \in KickPairs :
          /\ kick_count = pair.cur
          /\ kick_prev = IF current_cycle = 0 THEN ZeroKicks ELSE pair.prev
    /\ pc = "call"
    /\ result = NoResult
    /\ playmode = [i \in 0..(NCycles - 1) |-> "play_on"]
    /\ row = NoRow
    /\ PassLocalsInit

\* a call kick(cycle, team, df, True)
KickCall ==
    /\ pc = "call"
    /\ \E team \in {"l", "r"} :
         result' = [shape |-> "returned", team |-> team,
                    ret |-> kick(current_cycle, team, kick_count, kick_prev)]
    /\ pc' = "returned"
    /\ UNCHANGED << playmode, current_cycle, row, kick_count, kick_prev, PassLocals >>

KickNext == KickCall

KickSpec == KickInit /\ [][KickNext]_vars

-----------------------------------------------------------------------------
(* analyze_fouls_charge *)
(* In the specifications of the functions that read whole columns, row holds *)
(* the columns of the table other than playmode: row.ball[i] is the ball of  *)
(* row i.                                                                    *)

\* int(v) of a coordinate v given in tenths: the whole units, truncated
\* towards zero
int(v) == IF v >= 0 THEN v \div 10 ELSE -((-v) \div 10)

\* Point(int(ball_x), int(ball_y)) of row i, in whole units
FoulPoint(cols, i) == Point(int(cols.ball[i].x), int(cols.ball[i].y))

\* dataframe.loc[i, 'playmode']: a KeyError when the table has no row i
HasRow(i) == i \in DOMAIN playmode

\* for i in range(len(dataframe)): the if/elif of row i.  Python's `and`
\* reads row i-1 only when its left operand holds.
RECURSIVE FoulsFrom(_, _, _, _)
FoulsFrom(i, left_charges, right_charges, cols) ==
    IF i >= NCycles
    THEN [shape |-> "tuple", left |-> left_charges, right |-> right_charges]
    ELSE IF playmode[i] = "foul_charge_l"
    THEN IF ~HasRow(i - 1)
         THEN [shape |-> "KeyError", key |-> i - 1]
         ELSE IF playmode[i - 1] # "foul_charge_l"
         THEN FoulsFrom(i + 1, Append(left_charges, FoulPoint(cols, i)),
                        right_charges, cols)
         ELSE FoulsFrom(i + 1, left_charges, right_charges, cols)
    ELSE IF playmode[i] = "foul_charge_r"
    THEN IF ~HasRow(i - 1)
         THEN [shape |-> "KeyError", key |-> i - 1]
         ELSE IF playmode[i - 1] # "foul_charge_r"
         THEN FoulsFrom(i + 1, left_charges,
                        Append(right_charges, FoulPoint(cols, i)), cols)
         ELSE FoulsFrom(i + 1, left_charges, right_charges, cols)
    ELSE FoulsFrom(i + 1, left_charges, right_charges, cols)

\* analyze_fouls_charge(dataframe)
analyze_fouls_charge(cols) == FoulsFrom(0, << >>, << >>, cols)

FoulModes == { "play_on", "foul_charge_l", "foul_charge_r" }

\* the ball moves away from the centre line by one unit a row, on either half
BallTracks ==
    { [i \in 0..(NCycles - 1) |-> Point(sx * (15 + 10 * i), 27 + 10 * i)] :
        sx \in {1, -1} }

FoulsInit ==
    /\ playmode \in [0..(NCycles - 1) -> FoulModes]
    /\ \E track \in BallTracks : row = [ball |-> track]
    /\ pc = "call"
    /\ result = NoResult
    /\ current_cycle = 0
    /\ kick_count = ZeroKicks
    /\ kick_prev = ZeroKicks
    /\ PassLocalsInit

\* a call analyze_fouls_charge(dataframe)
FoulsCall ==
    /\ pc = "call"
    /\ result' = analyze_fouls_charge(row)
    /\ pc' = "returned"
    /\ UNCHANGED << playmode, current_cycle, row, kick_count, kick_prev, PassLocals >>

FoulsNext == FoulsCall

FoulsSpec == FoulsInit /\ [][FoulsNext]_vars

-----------------------------------------------------------------------------
(* goals *)

\* dataframe.iloc[index - 1]: positional, and position -1 is the last row
PositionBefore(index) == IF index = 0 THEN NCycles - 1 ELSE index - 1

\* for index, row in filtered_dataframe.iterrows(): the rows whose playmode is
\* goal_l or goal_r, in increasing order
RECURSIVE GoalsFrom(_, _, _, _)
GoalsFrom(index, goal_moments, left_team_goals, right_team_goals) ==
    IF index >= NCycles
    THEN [goal_moments |-> goal_moments, left_team_goals |-> left_team_goals,
          right_team_goals |-> right_team_goals]
    ELSE IF playmode[index] \in {"goal_l", "goal_r"}
            /\ playmode[PositionBefore(index)] # playmode[index]
    THEN IF playmode[index] = "goal_l"
         THEN GoalsFrom(index + 1, Append(goal_moments, index),
                        Append(left_team_goals, index), right_team_goals)
         ELSE GoalsFrom(index + 1, Append(goal_moments, index),
                        left_team_goals, Append(right_team_goals, index))
    ELSE GoalsFrom(index + 1, goal_moments, left_team_goals, right_team_goals)

\* goals(dataframe, team)
goals(team) ==
    LET found == GoalsFrom(0, << >>, << >>, << >>)
    IN  IF team = "left" THEN found.left_team_goals
        ELSE IF team = "right" THEN found.right_team_goals
        ELSE found.goal_moments

GoalModes == { "play_on", "goal_l", "goal_r" }

\* the team argument: omitted (None), the values the code tests, the values
\* the docstring names
GoalsTeamArgs == { None, "left", "right", "team_l", "team_r" }

GoalsInit ==
    /\ playmode \in [0..(NCycles - 1) -> GoalModes]
    /\ row = NoRow
    /\ pc = "call"
    /\ result = NoResult
    /\ current_cycle = 0
    /\ kick_count = ZeroKicks
    /\ kick_prev = ZeroKicks
    /\ PassLocalsInit

\* a call goals(dataframe, team)
GoalsCall ==
    /\ pc = "call"
    /\ \E team \in GoalsTeamArgs :
         result' = [shape |-> "returned", team |-> team, ret |-> goals(team)]
    /\ pc' = "returned"
    /\ UNCHANGED << playmode, current_cycle, row, kick_count, kick_prev, PassLocals >>

GoalsNext == GoalsCall

GoalsSpec == GoalsInit /\ [][GoalsNext]_vars

-----------------------------------------------------------------------------
(* analyze_goalkeeper *)
(* Here row also holds the position columns of the two goalkeepers           *)
(* (players[0][0] and players[1][0]) and their catch counters.  A distance   *)
(* is kept as its square.                                                    *)

max(a, b) == IF a >= b THEN a ELSE b

\* for goal_moment in enemy_goals: the three lists, in the order of enemy_goals
GoalkeeperLists(cols, enemy_team, enemy_goals) ==
    LET goalie_column == IF enemy_team = "left" THEN cols.goalie_l ELSE cols.goalie_r
    IN  [ ball_positions   |-> [k \in 1..Len(enemy_goals) |-> cols.ball[enemy_goals[k]]],
          goalie_positions |-> [k \in 1..Len(enemy_goals) |-> goalie_column[enemy_goals[k]]],
          distances        |-> [k \in 1..Len(enemy_goals) |->
                                   distance_sqrd(cols.ball[enemy_goals[k]],
                                                 goalie_column[enemy_goals[k]])] ]

\* analyze_goalkeeper(dataframe, players, team)
analyze_goalkeeper(cols, team) ==
    LET left_team_name == team_name_l
        enemy_team  == IF left_team_name = team THEN "right" ELSE "left"
        catches     == IF left_team_name = team
                       THEN cols.catch_l[NCycles - 1]
                       ELSE cols.catch_r[NCycles - 1]
        enemy_goals == goals(enemy_team)
        lists       == GoalkeeperLists(cols, enemy_team, enemy_goals)
    IN  [ shape |-> "tuple", team |-> team,
          catches |-> catches,
          adversary_goal_quantity |-> max(1, Len(enemy_goals)),
          distances |-> lists.distances,
          ball_positions |-> lists.ball_positions,
          goalie_positions |-> lists.goalie_positions ]

\* a catch counter column: 0 before row k, 1 from row k on
CatchColumn(k) == [i \in 0..(NCycles - 1) |-> IF i >= k THEN 1 ELSE 0]

\* the goalkeeper catches at row 0, at the last row, or never
CatchSteps == { 0, NCycles - 1, NCycles }

\* each goalkeeper moves along its own goal line
GoalkeeperTables ==
    { [ ball     |-> track,
        goalie_l |-> [i \in 0..(NCycles - 1) |-> Point(-500, 10 * i)],
        goalie_r |-> [i \in 0..(NCycles - 1) |-> Point(500, -10 * i)],
        catch_l  |-> CatchColumn(kl),
        catch_r  |-> CatchColumn(kr) ] :
        track \in BallTracks, kl \in CatchSteps, kr \in CatchSteps }

GoalkeeperInit ==
    /\ playmode \in [0..(NCycles - 1) -> GoalModes]
    /\ row \in GoalkeeperTables
    /\ pc = "call"
    /\ result = NoResult
    /\ current_cycle = 0
    /\ kick_count = ZeroKicks
    /\ kick_prev = ZeroKicks
    /\ PassLocalsInit

\* a call analyze_goalkeeper(dataframe, players, team)
GoalkeeperCall ==
    /\ pc = "call"
    /\ \E team \in TeamArgs : result' = analyze_goalkeeper(row, team)
    /\ pc' = "returned"
    /\ UNCHANGED << playmode, current_cycle, row, kick_count, kick_prev, PassLocals >>

GoalkeeperNext == GoalkeeperCall

GoalkeeperSpec == GoalkeeperInit /\ [][GoalkeeperNext]_vars

-----------------------------------------------------------------------------
(* find_last_unique_event_ocurrences *)
(* playmode stands for the second column of the table, dataframe.iloc[:, 1]. *)

\* `event in label`: the label contains the event as a substring
Contains(label, event) ==
    \/ label = event
    \/ (event = "free_kick_l" /\ label = "indirect_free_kick_l")

\* while dataframe.iloc[i, 1] == event: i += 1; if dataframe.iloc[i, 1] != event:
\* append(i) -- entered at a row i that equals event.  dataframe.iloc[i, 1] is
\* an IndexError for i = len(dataframe).
RECURSIVE WhileEvent(_, _)
WhileEvent(i, event) ==
    IF i + 1 >= NCycles
    THEN [shape |-> "IndexError", at |-> i + 1]
    ELSE IF playmode[i + 1] # event
    THEN [shape |-> "appended", at |-> i + 1]
    ELSE WhileEvent(i + 1, event)

\* for i in range(len(dataframe)): the if of row i, then the while loop, which
\* a row that contains event without being equal to it does not enter; the i
\* of the while loop does not move the for loop
RECURSIVE FindLastFrom(_, _, _)
FindLastFrom(i, event_ocurrences_index, event) ==
    IF i >= NCycles
    THEN [shape |-> "list", event |-> event, ret |-> event_ocurrences_index]
    ELSE IF Contains(playmode[i], event)
            /\ ~Contains(playmode[PositionBefore(i)], event)
    THEN IF playmode[i] = event
         THEN LET w == WhileEvent(i, event)
              IN  IF w.shape = "IndexError"
                  THEN [shape |-> "IndexError", event |-> event, ret |-> << >>]
                  ELSE FindLastFrom(i + 1, Append(event_ocurrences_index, w.at),
                                    event)
         ELSE FindLastFrom(i + 1, event_ocurrences_index, event)
    ELSE FindLastFrom(i + 1, event_ocurrences_index, event)

\* find_last_unique_event_ocurrences(dataframe, event)
find_last_unique_event_ocurrences(event) == FindLastFrom(0, << >>, event)

EventLabels == { "play_on", "free_kick_l", "indirect_free_kick_l" }

EventArgs == { "free_kick_l", "indirect_free_kick_l" }

FindLastInit ==
    /\ playmode \in [0..(NCycles - 1) -> EventLabels]
    /\ row = NoRow
    /\ pc = "call"
    /\ result = NoResult
    /\ current_cycle = 0
    /\ kick_count = ZeroKicks
    /\ kick_prev = ZeroKicks
    /\ PassLocalsInit

\* a call find_last_unique_event_ocurrences(dataframe, event)
FindLastCall ==
    /\ pc = "call"
    /\ \E event \in EventArgs :
         result' = find_last_unique_event_ocurrences(event)
    /\ pc' = "returned"
    /\ UNCHANGED << playmode, current_cycle, row, kick_count, kick_prev, PassLocals >>

FindLastNext == FindLastCall

FindLastSpec == FindLastInit /\ [][FindLastNext]_vars

-----------------------------------------------------------------------------
(* analyse_passes called on a whole table, then on a second table derived   *)
(* from it.  Here row holds the table but for its playmode column: the rows *)
(* of positions, the rows of kick counters and the two team names.          *)

\* lines 419-430: the locals when the loop is entered
LocalsAtEntry ==
    [ pass_r |-> FALSE, pass_l |-> FALSE, player_who_kicked |-> -1,
      correct_passes_l |-> 0, wrong_passes_l |-> 0, intercepted_passes_l |-> 0,
      correct_passes_r |-> 0, wrong_passes_r |-> 0, intercepted_passes_r |-> 0,
      kicker_r |-> -1, kicker_l |-> -1,
      continued |-> FALSE, lookahead |-> "none", exc |-> "none" ]

\* for current_cycle, row in df.iterrows(): the iterations from row cycle on
RECURSIVE ScanFrom(_, _, _)
ScanFrom(s, cycle, tbl) ==
    IF cycle >= NCycles \/ s.exc # "none"
    THEN s
    ELSE ScanFrom(Iteration([s EXCEPT !.continued = FALSE, !.lookahead = "none"],
                            cycle, tbl.rows[cycle], tbl.kicks[cycle],
                            IF cycle = 0 THEN ZeroKicks ELSE tbl.kicks[cycle - 1]),
                  cycle + 1, tbl)

\* lines 502-507
ReturnFor(s, team, tbl) ==
    IF s.exc # "none"
    THEN [shape |-> s.exc]
    ELSE IF team = tbl.team_name_l
    THEN [shape |-> "tuple", correct |-> s.correct_passes_l,
          wrong |-> s.wrong_passes_l, intercepted |-> s.intercepted_passes_l]
    ELSE IF team = tbl.team_name_r
    THEN [shape |-> "tuple", correct |-> s.correct_passes_r,
          wrong |-> s.wrong_passes_r, intercepted |-> s.intercepted_passes_r]
    ELSE [shape |-> "ValueError"]

\* analyse_passes(df, players, team)
analyse_passes(tbl, team) == ReturnFor(ScanFrom(LocalsAtEntry, 0, tbl), team, tbl)

\* what the calls for the two teams of the table return
BothTeams(tbl) ==
    [team \in {team_name_l, team_name_r} |-> analyse_passes(tbl, team)]

\* position rows of a table: nobody is near the ball but, at one row at most,
\* one player of list index 1 or 2
PositionColumns ==
    { [c \in 0..(NCycles - 1) |-> RowWith(BallSpot, {}, {}, NearSpot)] }
    \cup { [c \in 0..(NCycles - 1) |->
              IF c = e[1] /\ e[2] = "l" THEN RowWith(BallSpot, {e[3]}, {}, NearSpot)
              ELSE IF c = e[1] /\ e[2] = "r" THEN RowWith(BallSpot, {}, {e[3]}, NearSpot)
              ELSE RowWith(BallSpot, {}, {}, NearSpot)] :
            e \in (1..(NCycles - 1)) \X {"l", "r"} \X {1, 2} }

\* the rows at which a side's kick counter may rise; 0 stands for never
KickTimes == 0..(NCycles - 1)

\* kick counter rows of a table: the counter of the side's player of
\* KickShirts rises by one at row at[team]
KickColumns(at) ==
    [c \in 0..(NCycles - 1) |->
        [team \in {"l", "r"} |->
            [n \in 1..11 |->
                IF n \in KickShirts /\ at[team] # 0 /\ c >= at[team] THEN 1 ELSE 0]]]

\* the mirrored table: the two sides' positions, kick counters, play-mode
\* suffixes and team names exchanged
MirrorMode(m) ==
    CASE m = "kick_in_l" -> "kick_in_r"
      [] m = "kick_in_r" -> "kick_in_l"
      [] m = "kick_off_l" -> "kick_off_r"
      [] m = "kick_off_r" -> "kick_off_l"
      [] m = "foul_charge_l" -> "foul_charge_r"
      [] m = "foul_charge_r" -> "foul_charge_l"
      [] OTHER -> m

MirrorRow(r) == [ball |-> r.ball, left |-> r.right, right |-> r.left]

MirrorKicks(k) == [team \in {"l", "r"} |-> IF team = "l" THEN k["r"] ELSE k["l"]]

Mirror(tbl) ==
    [ rows  |-> [c \in 0..(NCycles - 1) |-> MirrorRow(tbl.rows[c])],
      kicks |-> [c \in 0..(NCycles - 1) |-> MirrorKicks(tbl.kicks[c])],
      at    |-> MirrorKicks(tbl.at),
      team_name_l |-> tbl.team_name_r,
      team_name_r |-> tbl.team_name_l ]

\* the table with the kick counters of one side replaced: its kick is at row t
WithKickAt(tbl, side, t) ==
    LET at == [tbl.at EXCEPT ![side] = t]
    IN  [tbl EXCEPT !.at = at, !.kicks = KickColumns(at)]

PairInit ==
    /\ playmode \in PlaymodeColumns
    /\ \E rows \in PositionColumns, at \in [{"l", "r"} -> KickTimes] :
         row = [ rows |-> rows, kicks |-> KickColumns(at), at |-> at,
                 team_name_l |-> team_name_l, team_name_r |-> team_name_r ]
    /\ pc = "call"
    /\ result = NoResult
    /\ current_cycle = 0
    /\ kick_count = ZeroKicks
    /\ kick_prev = ZeroKicks
    /\ PassLocalsInit

\* the calls on the first table
FirstCall ==
    /\ pc = "call"
    /\ result' = [shape |-> "returned", first |-> BothTeams(row)]
    /\ pc' = "returned"
    /\ UNCHANGED << playmode, current_cycle, row, kick_count, kick_prev, PassLocals >>

\* the calls on the mirrored table
MirrorCall ==
    /\ pc = "returned"
    /\ playmode' = [c \in 0..(NCycles - 1) |-> MirrorMode(playmode[c])]
    /\ row' = Mirror(row)
    /\ result' = [shape |-> "mirrored", first |-> result.first,
                  second |-> BothTeams(row')]
    /\ pc' = "mirrored"
    /\ UNCHANGED << current_cycle, kick_count, kick_prev, PassLocals >>

\* the calls on a table that differs in the kick counters of one side
VariantCall ==
    /\ pc = "returned"
    /\ \E side \in {"l", "r"}, t \in KickTimes :
         /\ t # row.at[side]
         /\ row' = WithKickAt(row, side, t)
         /\ result' = [shape |-> "varied", side |-> side, first |-> result.first,
                       second |-> BothTeams(row')]
    /\ pc' = "varied"
    /\ UNCHANGED << playmode, current_cycle, kick_count, kick_prev, PassLocals >>

PairNext == FirstCall \/ MirrorCall \/ VariantCall

PairSpec == PairInit /\ [][PairNext]_vars

-----------------------------------------------------------------------------
(* What an iteration of the scan reads at row current_cycle *)

\* playmode of the row the loop is at
ModeNow == playmode[current_cycle]

\* define_player_possession(current_cycle, players, df, True) at that row
PossessionNow == define_player_possession(row, TRUE)

\* kick(current_cycle, team, df, True)[0] at that row
KickNow(team) == kick(current_cycle, team, kick_count, kick_prev).kicked

\* some row n of rows holds one of labels
RestartIn(rows, labels) ==
    \E n \in rows : n \in DOMAIN playmode /\ playmode[n] \in labels

RestartsL == {"kick_off_l", "foul_charge_l"}
RestartsR == {"kick_off_r", "foul_charge_r"}

-----------------------------------------------------------------------------
(* Claims on analyse_passes *)

\* C1: a pass in flight that is resolved by possession is counted correct for
\* its side exactly when possession resolves to that side with a player
\* number different from the one kick() returned when the pass opened; when
\* the two numbers are equal the pass closes and the counter stays.
C1_CorrectIffOtherPlayer ==
    [][ pc = "loop" =>
          /\ (pass_r /\ ModeNow # "kick_in_l") =>
                /\ correct_passes_r' = correct_passes_r +
                      (IF PossessionNow.side = "right" /\ PossessionNow.num # kicker_r
                       THEN 1 ELSE 0)
                /\ (PossessionNow.side = "right" => ~pass_r')
          /\ (pass_l /\ ~pass_r /\ ModeNow # "kick_in_r") =>
                /\ correct_passes_l' = correct_passes_l +
                      (IF PossessionNow.side = "left" /\ PossessionNow.num # kicker_l
                       THEN 1 ELSE 0)
                /\ (PossessionNow.side = "left" => ~pass_l')
      ]_vars

\* C2: when a pass in flight meets possession of the opposing side at cycle c,
\* it closes and the opposing side's intercepted counter grows by 1, unless
\* one of the rows c+1..c+5 of the table holds that side's kick_off or
\* foul_charge mode, and then it does not change.
C2_RetractedIffNextFive ==
    [][ pc = "loop" =>
          LET next5 == (current_cycle + 1)..(current_cycle + LookaheadWindow)
          IN  /\ (pass_r /\ ModeNow # "kick_in_l" /\ PossessionNow.side = "left") =>
                    /\ ~pass_r'
                    /\ intercepted_passes_l' = intercepted_passes_l +
                          (IF RestartIn(next5, RestartsL) THEN 0 ELSE 1)
              /\ (pass_l /\ ~pass_r /\ ModeNow # "kick_in_r"
                    /\ PossessionNow.side = "right") =>
                    /\ ~pass_l'
                    /\ intercepted_passes_r' = intercepted_passes_r +
                          (IF RestartIn(next5, RestartsR) THEN 0 ELSE 1)
      ]_vars

\* C3: a side that is idle at the start of a cycle is in flight after the
\* cycle exactly when kick() detects a kick of that side at the cycle,
\* whatever the other side's machine does in the cycle.
C3_IdleSideFollowsItsKick ==
    [][ pc = "loop" =>
          /\ (~pass_r => (pass_r' <=> KickNow("r")))
          /\ (~pass_l => (pass_l' <=> KickNow("l")))
      ]_vars

\* C4: a pass in flight at the start of a cycle whose mode is the opposing
\* side's kick_in closes, adds exactly 1 to its side's wrong counter and
\* changes neither its side's correct counter nor the opposing side's
\* intercepted counter.
C4_KickInIsWrongPass ==
    [][ pc = "loop" =>
          /\ (pass_r /\ ModeNow = "kick_in_l") =>
                /\ ~pass_r'
                /\ wrong_passes_r' = wrong_passes_r + 1
                /\ correct_passes_r' = correct_passes_r
                /\ intercepted_passes_l' = intercepted_passes_l
          /\ (pass_l /\ ModeNow = "kick_in_r") =>
                /\ ~pass_l'
                /\ wrong_passes_l' = wrong_passes_l + 1
                /\ correct_passes_l' = correct_passes_l
                /\ intercepted_passes_r' = intercepted_passes_r
      ]_vars

\* C5: a pass in flight at the start of a cycle whose mode is not the
\* opposing side's kick_in and whose possession is neutral is still in flight
\* after the cycle, and the counters it can move (its side's correct and
\* wrong, the opposing side's intercepted) are unchanged.
C5_NeutralKeepsInFlight ==
    [][ (pc = "loop" /\ PossessionNow.side = None) =>
          /\ (pass_r /\ ModeNow # "kick_in_l") =>
                /\ pass_r'
                /\ UNCHANGED << correct_passes_r, wrong_passes_r, intercepted_passes_l >>
          /\ (pass_l /\ ModeNow # "kick_in_r") =>
                /\ pass_l'
                /\ UNCHANGED << correct_passes_l, wrong_passes_l, intercepted_passes_r >>
      ]_vars

\* C6: an interception at a cycle c whose window c..c+4 runs past the last
\* row raises nothing: the call goes on to the next row or to its return, the
\* intercepted counter moves as the rows of the window that exist decide (kept
\* at +1 unless one of them holds the restart mode) and the other five
\* counters are untouched; the call never ends with the KeyError.
C6_OverrunSwallowed ==
    /\ [][ (pc = "loop" /\ current_cycle + LookaheadWindow > NCycles) =>
             LET window == current_cycle..(current_cycle + LookaheadWindow - 1)
             IN  /\ pc' \in {"loop", "return"}
                 /\ result' = NoResult
                 /\ (pass_r /\ ModeNow # "kick_in_l" /\ PossessionNow.side = "left") =>
                       /\ intercepted_passes_l' = intercepted_passes_l +
                             (IF RestartIn(window, RestartsL) THEN 0 ELSE 1)
                       /\ UNCHANGED << correct_passes_l, wrong_passes_l,
                                       correct_passes_r, wrong_passes_r,
                                       intercepted_passes_r >>
                 /\ (pass_l /\ ~pass_r /\ ModeNow # "kick_in_r"
                       /\ PossessionNow.side = "right") =>
                       /\ intercepted_passes_r' = intercepted_passes_r +
                             (IF RestartIn(window, RestartsR) THEN 0 ELSE 1)
                       /\ UNCHANGED << correct_passes_l, wrong_passes_l,
                                       correct_passes_r, wrong_passes_r,
                                       intercepted_passes_l >>
         ]_vars
    /\ [](pc # "raised" /\ result.shape # "KeyError")

\* the except clause ran in the last iteration and the call returned tallies
C6_Witness ==
    /\ pc = "done"
    /\ lookahead = "caught"
    /\ result.shape = "tuple"
    /\ intercepted_passes_l + intercepted_passes_r > 0

\* C7: the six counters are never negative.
C7_CountersNonNegative ==
    /\ correct_passes_l >= 0 /\ wrong_passes_l >= 0 /\ intercepted_passes_l >= 0
    /\ correct_passes_r >= 0 /\ wrong_passes_r >= 0 /\ intercepted_passes_r >= 0

\* a lookahead has just retracted the interception and left both intercepted
\* counters at 0
C7_Witness ==
    /\ lookahead = "retracted"
    /\ intercepted_passes_l = 0
    /\ intercepted_passes_r = 0

-----------------------------------------------------------------------------
(* Claims on define_player_possession *)

\* the ball's influence zone at the row of the call, and who stands in it
BallZone == Circle(player_influence_radius, row.ball)
InsideL(i) == is_inside(BallZone, row.left[i])
InsideR(i) == is_inside(BallZone, row.right[i])

\* list indices of the outfield players: shirt numbers 2..11
Outfield == 1..10

\* shirt number of the player at list index i
Shirt(i) == i + 1

Neutral == Tuple2(None, -1)

\* C8: with player_who_possesses=True the result is (None, -1) when no
\* outfield player is inside the zone, and otherwise (side, n) with n in 2..11
\* the shirt number of a player of that side inside the zone.  Stated for the
\* rows free of the two other defects of the scan: no index has both its
\* players inside (C9), and the field's origin is outside the zone (C10).
C8_ValidPair ==
    (pc = "returned" /\ result.flag
        /\ ~is_inside(BallZone, PointDefault)
        /\ \A i \in Outfield : ~(InsideL(i) /\ InsideR(i))) =>
        IF \A i \in Outfield : ~InsideL(i) /\ ~InsideR(i)
        THEN result.ret = Neutral
        ELSE /\ result.ret.side \in {"left", "right"}
             /\ result.ret.num \in 2..11
             /\ \E i \in Outfield :
                   /\ Shirt(i) = result.ret.num
                   /\ IF result.ret.side = "left" THEN InsideL(i) ELSE InsideR(i)

\* C9: when the left and the right player of one index are both inside the
\* zone and no player of a lower index is, the result is neutral.
C9_BothInsideIsNeutral ==
    pc = "returned" =>
        \A i \in Outfield :
            ( /\ InsideL(i) /\ InsideR(i)
              /\ \A j \in 1..(i - 1) : ~InsideL(j) /\ ~InsideR(j) )
            => result.ret.side = None

\* C10: when no index has both its players inside the zone, the result names
\* the first player inside the zone in the order left 2, right 2, ..., left
\* 11, right 11, by side and shirt number, and is neutral only when none is.
C10_FirstInsideInScanOrder ==
    (pc = "returned" /\ result.flag
        /\ \A i \in Outfield : ~(InsideL(i) /\ InsideR(i))) =>
        LET hit == { i \in Outfield : InsideL(i) \/ InsideR(i) }
        IN  IF hit = {}
            THEN result.ret = Neutral
            ELSE result.ret =
                    Tuple2(IF InsideL(Min(hit)) THEN "left" ELSE "right",
                           Shirt(Min(hit)))

-----------------------------------------------------------------------------
(* Claims on possession_at *)

\* the 22 players in the order the scan examines them: left 1, right 1,
\* left 2, right 2, ..., left 11, right 11
ExamSide(k) == IF k % 2 = 0 THEN "left" ELSE "right"
ExamSqrd(k) ==
    distance_sqrd(IF k % 2 = 0 THEN row.left[k \div 2] ELSE row.right[k \div 2],
                  row.ball)

\* C11: possession_at returns 'left' or 'right', whatever the placement of
\* the ball and the 22 players.
C11_AlwaysASide ==
    pc = "returned" => result.ret \in {"left", "right"}

\* C12: possession_at returns the side of the closest of the 22 players, and
\* among several closest players the side of the one examined first.
C12_ClosestFirstExamined ==
    pc = "returned" =>
        LET closest == { k \in 0..21 : \A j \in 0..21 : ExamSqrd(k) <= ExamSqrd(j) }
        IN  result.ret = ExamSide(Min(closest))

-----------------------------------------------------------------------------
(* Claims on kick *)

\* the shirts of team whose counter at the cycle of the call is greater than
\* in the row before
Raised(team) ==
    { p \in 1..11 : kick_count[team][p] > kick_prev[team][p] }

\* C13: kick(cycle, team, df, True) is (False, -1) at cycle 0; at a later cycle
\* it is (True, p) with p the lowest shirt of the team whose counter is greater
\* than at cycle-1, and (False, -1) when there is none.
C13_LowestRaisedShirt ==
    pc = "returned" =>
        IF current_cycle = 0 \/ Raised(result.team) = {}
        THEN result.ret = [kicked |-> FALSE, num |-> -1]
        ELSE /\ result.ret.kicked
             /\ result.ret.num \in Raised(result.team)
             /\ \A q \in Raised(result.team) : result.ret.num <= q

\* after cycle 0, two players of the team raised their counter in the same
\* cycle and the call named the lower shirt
C13_Witness ==
    /\ pc = "returned"
    /\ current_cycle > 0
    /\ Cardinality(Raised(result.team)) >= 2
    /\ result.ret = [kicked |-> TRUE, num |-> 1]

-----------------------------------------------------------------------------
(* Claims on the scans of the playmode column *)

\* the rows that open a maximal run of rows of one mode
RunStarts(mode) ==
    { i \in DOMAIN playmode :
        playmode[i] = mode /\ (i = 0 \/ playmode[i - 1] # mode) }

\* the rows that close a maximal run of rows of one mode
RunEnds(mode) ==
    { i \in DOMAIN playmode :
        playmode[i] = mode /\ (i = NCycles - 1 \/ playmode[i + 1] # mode) }

\* the members of a set of integers in increasing order
RECURSIVE Ascending(_)
Ascending(S) ==
    IF S = {} THEN << >> ELSE << Min(S) >> \o Ascending(S \ {Min(S)})

\* the truncated ball positions of the rows of a sequence of cycles
FoulPointsAt(cycles) ==
    [k \in 1..Len(cycles) |-> FoulPoint(row, cycles[k])]

\* C14: analyze_fouls_charge returns, for every table, one foul for each
\* maximal run of foul_charge_l rows (left list) and of foul_charge_r rows
\* (right list), taken at the first row of the run, a run that opens at cycle
\* 0 included; it raises no error reading before the first row.
C14_OneFoulPerRun ==
    pc = "returned" =>
        /\ result.shape = "tuple"
        /\ result.left = FoulPointsAt(Ascending(RunStarts("foul_charge_l")))
        /\ result.right = FoulPointsAt(Ascending(RunStarts("foul_charge_r")))

\* C15: goals(dataframe) returns, in increasing order, exactly the rows that
\* open a maximal run of goal_l rows or of goal_r rows, row 0 included
\* whatever the playmode of the last row.
C15_GoalRunStarts ==
    (pc = "returned" /\ result.team = None) =>
        result.ret = Ascending(RunStarts("goal_l") \cup RunStarts("goal_r"))

\* C20: goals(dataframe, "team_l") returns only the rows that open a goal_l
\* run, goals(dataframe, "team_r") only those that open a goal_r run, and the
\* call without a team those of both.  Stated for the tables on which C15
\* holds: row 0 is no goal row with the playmode of the last row.
C20_DocumentedTeamValues ==
    (pc = "returned"
        /\ ~(playmode[0] \in {"goal_l", "goal_r"}
                /\ playmode[NCycles - 1] = playmode[0])) =>
        /\ result.team = "team_l" => result.ret = Ascending(RunStarts("goal_l"))
        /\ result.team = "team_r" => result.ret = Ascending(RunStarts("goal_r"))
        /\ result.team = None =>
              result.ret = Ascending(RunStarts("goal_l") \cup RunStarts("goal_r"))

-----------------------------------------------------------------------------
(* Claims on analyze_goalkeeper *)

\* the goal mode of the side that opposes team, the rows that open its runs,
\* and the columns of team's own goalkeeper
OpposingGoalMode(team) == IF team = team_name_l THEN "goal_r" ELSE "goal_l"
OpposingGoalCycles(team) == Ascending(RunStarts(OpposingGoalMode(team)))
OwnGoalie(team) == IF team = team_name_l THEN row.goalie_l ELSE row.goalie_r
OwnCatches(team) == IF team = team_name_l THEN row.catch_l ELSE row.catch_r

\* C16: for each goal cycle of the side opposing team, analyze_goalkeeper
\* records the ball of that row and the position at that row of team's own
\* goalkeeper.  Stated for the tables on which C15 holds: row 0 is no goal row
\* with the playmode of the last row.
C16_OwnGoalkeeperAtGoals ==
    (pc = "returned" /\ result.team \in {team_name_l, team_name_r}
        /\ ~(playmode[0] \in {"goal_l", "goal_r"}
                /\ playmode[NCycles - 1] = playmode[0])) =>
        LET cycles == OpposingGoalCycles(result.team)
        IN  /\ result.ball_positions = [k \in 1..Len(cycles) |-> row.ball[cycles[k]]]
            /\ result.goalie_positions =
                    [k \in 1..Len(cycles) |-> OwnGoalie(result.team)[cycles[k]]]

\* C17: with n the number of goal cycles of the side opposing team,
\* adversary_goal_quantity is max(1, n), the three lists have n entries each,
\* and catches is the catch counter of team's own goalkeeper at the last row.
C17_FlooredCountAndCatches ==
    (pc = "returned" /\ result.team \in {team_name_l, team_name_r}) =>
        LET n == Len(OpposingGoalCycles(result.team))
        IN  /\ result.adversary_goal_quantity = max(1, n)
            /\ Len(result.distances) = n
            /\ Len(result.ball_positions) = n
            /\ Len(result.goalie_positions) = n
            /\ result.catches = OwnCatches(result.team)[NCycles - 1]

\* C18: a call with a team name that is neither team_name_l nor team_name_r
\* ends with an error and returns nothing.
C18_UnknownTeamFails ==
    (pc = "returned" /\ result.team \notin {team_name_l, team_name_r}) =>
        result.shape = "ValueError"

-----------------------------------------------------------------------------
(* Claims on find_last_unique_event_ocurrences *)

\* C19: find_last_unique_event_ocurrences(dataframe, event) returns, in
\* increasing order, exactly the last rows of the maximal runs of rows whose
\* second column equals event, a run that reaches the last row of the table
\* included.
C19_LastRowOfEachRun ==
    pc = "returned" =>
        /\ result.shape = "list"
        /\ result.ret = Ascending(RunEnds(result.event))

-----------------------------------------------------------------------------
(* More claims on define_player_possession *)

\* C24: when some outfield player is inside the ball's zone, the result is
\* neutral exactly when the origin (0, 0) is inside the zone (the ball is
\* within 0.7 of it) and the left player of list index 1 is inside the zone;
\* otherwise it is 'left' or 'right'.
C24_NeutralOnlyNearOrigin ==
    (pc = "returned" /\ \E i \in Outfield : InsideL(i) \/ InsideR(i)) =>
        IF is_inside(BallZone, OriginSpot) /\ InsideL(1)
        THEN result.ret.side = None
        ELSE result.ret.side \in {"left", "right"}

\* the ball is away from the origin, the two players of list index 1 are both
\* inside the zone, and the call returned a side
C24_Witness ==
    /\ pc = "returned"
    /\ ~is_inside(BallZone, OriginSpot)
    /\ InsideL(1) /\ InsideR(1)
    /\ result.ret.side = "left"

-----------------------------------------------------------------------------
(* More claims on analyse_passes *)

RECURSIVE SumTo(_, _)
SumTo(f, n) == IF n = 0 THEN 0 ELSE f[n] + SumTo(f, n - 1)

\* The number of rows, up to the one holding the counters, at which kick() is
\* true for the team.  In the explored tables the counters of row 0 are zero
\* and a row raises at most one counter of a side, by one, so this is the sum
\* of the side's counters.
KickCycles(counters, team) == SumTo(counters[team], 11)

\* the outcomes counted for the passes a side originated
OutcomesL == correct_passes_l + wrong_passes_l + intercepted_passes_r
OutcomesR == correct_passes_r + wrong_passes_r + intercepted_passes_l

\* C23: after each iteration of the scan, the outcomes counted for the passes
\* of a side (its correct and wrong passes and the other side's
\* interceptions) are at most the rows scanned so far at which kick() is true
\* for that side.  kick_count holds the counters of the row the step scans.
C23_OutcomesAtMostKicks ==
    [][ pc = "loop" =>
          /\ OutcomesL' <= KickCycles(kick_count, "l")
          /\ OutcomesR' <= KickCycles(kick_count, "r") ]_vars

\* one left kick has been scanned and one outcome counted for it
C23_Witness ==
    /\ pc = "loop"
    /\ KickCycles(kick_prev, "l") = 1
    /\ OutcomesL = 1

\* C25: an iteration that changes a counter of a side's passes found that
\* side's pass in flight when it began (kick() opened it at an earlier cycle)
\* and leaves no pass of that side in flight, so no outcome is counted in the
\* cycle whose kick opens a pass; the return statement counts nothing, so a
\* pass opened at the last cycle has no outcome.
C25_ResolvedAfterItsKick ==
    [][ /\ pc = "loop" =>
              /\ OutcomesL' # OutcomesL => pass_l /\ ~pass_l'
              /\ OutcomesR' # OutcomesR => pass_r /\ ~pass_r'
        /\ pc = "return" =>
              /\ OutcomesL' = OutcomesL /\ OutcomesR' = OutcomesR
              /\ result'.shape = "tuple" /\ result'.team = team_name_l =>
                    /\ result'.correct = correct_passes_l
                    /\ result'.wrong = wrong_passes_l
                    /\ result'.intercepted = intercepted_passes_l
              /\ result'.shape = "tuple" /\ result'.team = team_name_r =>
                    /\ result'.correct = correct_passes_r
                    /\ result'.wrong = wrong_passes_r
                    /\ result'.intercepted = intercepted_passes_r ]_vars

\* the left side's only kick was detected at cycle 1 and that cycle has been
\* scanned: the pass is in flight and nothing is counted for it
C25_Witness ==
    /\ pc = "loop"
    /\ current_cycle = 2
    /\ KickCycles(kick_prev, "l") = 1
    /\ pass_l
    /\ OutcomesL = 0

\* C21: the calls on the mirrored table return, for each team, the tallies the
\* calls on the original table return for that team (the team is on the other
\* side of the mirrored table).
C21_MirrorSameTallies ==
    pc = "mirrored" =>
        \A team \in {team_name_l, team_name_r} :
            result.second[team] = result.first[team]

\* C22: on two tables that differ only in the right side's kick counters the
\* tallies of the left side's passes (its correct and wrong passes, the right
\* side's interceptions) are the same, and likewise for the right side's
\* passes when only the left side's kick counters differ.
C22_SidesIndependent ==
    pc = "varied" =>
        /\ result.side = "r" =>
              /\ result.second[team_name_l].correct = result.first[team_name_l].correct
              /\ result.second[team_name_l].wrong = result.first[team_name_l].wrong
              /\ result.second[team_name_r].intercepted
                    = result.first[team_name_r].intercepted
        /\ result.side = "l" =>
              /\ result.second[team_name_r].correct = result.first[team_name_r].correct
              /\ result.second[team_name_r].wrong = result.first[team_name_r].wrong
              /\ result.second[team_name_l].intercepted
                    = result.first[team_name_l].intercepted

====
